---- MODULE Spec2Model ----
(***************************************************************************)
(* CalculateUserTopicAccuracy: the naive per-attempt-lookup variant        *)
(* (inefficient_code.go) and the three grouped-join rewrites (grok4.go,    *)
(* Qwen3.go, k2.go), over a store of questions and question attempts.      *)
(*                                                                         *)
(* The store is the two tables.  `questions` maps a primary key to a topic.*)
(* `attempts` is the bag of rows (UserID, QuestionID, IsCorrect): the      *)
(* primary key of an attempt is read by no variant, and a SELECT without   *)
(* ORDER BY fixes no row order.  A percentage is kept as the reduced       *)
(* fraction num/den of the real number it denotes (den = 0 for NaN/Inf);   *)
(* the 2^-53 relative rounding of float64 arithmetic is not represented.   *)
(* Every query a call issues may fail with a store error (DbErrors).       *)
(***************************************************************************)
EXTENDS Integers, Sequences, FiniteSets, Bags, TLC

VARIABLES questions, attempts, call

vars == <<questions, attempts, call>>

\* Bounds of the model.
MaxAttempts == 3
MaxExtra == 1
MaxFaults == 1

Users == {"u1", "u2"}
QuestionIDs == {1, 2, 3}
Topics == {"Algebra", "Calculus"}
DbErrors == {"ErrConnDone", "ErrBusy"}
NoErr == "nil"

\* The zero value of Question: what `var question Question` holds when
\* db.First loads nothing into it.
ZeroQuestion == [ID |-> 0, Topic |-> ""]

AttemptRows == [UserID : Users, QuestionID : QuestionIDs, IsCorrect : BOOLEAN]

-----------------------------------------------------------------------------
(* Numbers *)

RECURSIVE GCD(_, _)
GCD(a, b) == IF b = 0 THEN a ELSE GCD(b, a % b)

\* The real number n/d as a reduced fraction; 0/0 is NaN and n/0 is +Inf,
\* as float64 division gives them.
Ratio(n, d) ==
    IF d = 0 THEN [num |-> IF n = 0 THEN 0 ELSE 1, den |-> 0]
    ELSE LET g == GCD(n, d) IN [num |-> n \div g, den |-> d \div g]

\* Mutant: the division done on the integers, before the conversion.
GoPercent_IntDiv(correct, total) ==
    IF total = 0 THEN Ratio(correct, 0) ELSE Ratio((correct \div total) * 100, 1)

\* (float64(correct) / float64(total)) * 100
GoPercent(correct, total) == Ratio(correct * 100, total)

\* Mutant: the hundredths truncated instead of rounded.
SqlRoundPercent_Trunc(correct, total) ==
    Ratio((correct * 10000) \div total, 100)

\* ROUND(CAST(correct AS REAL) * 100.0 / total, 2): the nearest hundredth,
\* halves away from zero.  COUNT(*) of a group is never 0.
SqlRoundPercent(correct, total) ==
    Ratio((2 * correct * 10000 + total) \div (2 * total), 100)

-----------------------------------------------------------------------------
(* The store's queries *)

RECURSIVE BagToSeq(_)
BagToSeq(B) ==
    IF B = EmptyBag THEN <<>>
    ELSE LET r == CHOOSE x \in BagToSet(B) : TRUE
         IN  <<r>> \o BagToSeq(B (-) SetToBag({r}))

RECURSIVE SumCopies(_, _)
SumCopies(B, S) ==
    IF S = {} THEN 0
    ELSE LET r == CHOOSE x \in S : TRUE
         IN  CopiesIn(r, B) + SumCopies(B, S \ {r})

\* The rows of user u.
UserRows(att, u) == {r \in BagToSet(att) : r.UserID = u}

UserBag(att, u) ==
    [r \in UserRows(att, u) |-> CopiesIn(r, att)]

\* db.Where("user_id = ?", userID).Find(&attempts)
Find(att, u) == BagToSeq(UserBag(att, u))

\* db.First(&question, attempt.QuestionID): the question loaded, or the zero
\* value left in place when the query fails or finds no record (the error is
\* not looked at).
First(qs, id, fails) ==
    IF fails \/ id \notin DOMAIN qs THEN ZeroQuestion
    ELSE [ID |-> id, Topic |-> qs[id]]

\* Mutant: the user filter left out of the join.
JoinRows_NoUserFilter(qs, att, u) ==
    {r \in BagToSet(att) : r.QuestionID \in DOMAIN qs}

\* question_attempts JOIN questions ON questions.id = question_id
\* WHERE user_id = u
JoinRows(qs, att, u) ==
    {r \in UserRows(att, u) : r.QuestionID \in DOMAIN qs}

\* Mutant: SUM counts a correct attempt twice.
GroupByTopic_DoubleCorrect(qs, att, u) ==
    LET J == JoinRows(qs, att, u)
    IN  {[Topic   |-> t,
          Total   |-> SumCopies(att, {r \in J : qs[r.QuestionID] = t}),
          Correct |-> 2 * SumCopies(att, {r \in J : qs[r.QuestionID] = t /\ r.IsCorrect})]
         : t \in {qs[r.QuestionID] : r \in J}}

\* SELECT topic, COUNT(*) AS total, SUM(CASE WHEN is_correct ...) AS correct
\* ... GROUP BY questions.topic
GroupByTopic(qs, att, u) ==
    LET J == JoinRows(qs, att, u)
    IN  {[Topic   |-> t,
          Total   |-> SumCopies(att, {r \in J : qs[r.QuestionID] = t}),
          Correct |-> SumCopies(att, {r \in J : qs[r.QuestionID] = t /\ r.IsCorrect})]
         : t \in {qs[r.QuestionID] : r \in J}}

\* The k2 query adds the accuracy column, computed by the store.
GroupByTopicAccuracy(qs, att, u) ==
    {[Topic |-> r.Topic, Total |-> r.Total, Correct |-> r.Correct,
      Accuracy |-> SqlRoundPercent(r.Correct, r.Total)]
     : r \in GroupByTopic(qs, att, u)}

-----------------------------------------------------------------------------
(* The four variants.  A fault f = [at, err] names the queries of the call *)
(* that fail (1 is the first query issued) and the error they fail with.   *)

NoFault == [at |-> {}, err |-> NoErr]

EmptyMap == [t \in {} |-> Ratio(0, 1)]
NilMap == [isNil |-> TRUE, m |-> EmptyMap]
Map(m) == [isNil |-> FALSE, m |-> m]

Failure(f, queries) ==
    [ret |-> NilMap, err |-> f.err, queries |-> queries, rows |-> {}]

\* topicStats after the loop over attempts i..Len(rows)
RECURSIVE NaiveLoop(_, _, _, _, _)
NaiveLoop(qs, rows, i, failedAt, topicStats) ==
    IF i > Len(rows) THEN topicStats
    ELSE LET attempt  == rows[i]
             question == First(qs, attempt.QuestionID, (i + 1) \in failedAt)
             topic    == question.Topic
             made     == IF topic \in DOMAIN topicStats THEN topicStats
                         ELSE topicStats @@ (topic :> [total |-> 0, correct |-> 0])
             counted  == [made EXCEPT ![topic] =
                            [total   |-> @.total + 1,
                             correct |-> IF attempt.IsCorrect THEN @.correct + 1
                                         ELSE @.correct]]
         IN  NaiveLoop(qs, rows, i + 1, failedAt, counted)

NaiveQueries(rows) == <<"Find">> \o [i \in 1..Len(rows) |-> "First"]

\* Mutant: no attempts answered with a nil map.
Naive_NilWhenEmpty(qs, att, u, f) ==
    IF 1 \in f.at THEN Failure(f, <<"Find">>)
    ELSE LET rows  == Find(att, u)
             stats == NaiveLoop(qs, rows, 1, f.at, EmptyMap)
         IN  [ret |-> IF rows = <<>> THEN NilMap
                      ELSE Map([t \in {x \in DOMAIN stats : stats[x].total > 0} |->
                                  GoPercent(stats[t].correct, stats[t].total)]),
              err |-> NoErr, queries |-> NaiveQueries(rows), rows |-> {}]

\* Mutant: a correct attempt is not counted as correct.
Naive_NoCorrect(qs, att, u, f) ==
    IF 1 \in f.at THEN Failure(f, <<"Find">>)
    ELSE LET rows  == Find(att, u)
             stats == NaiveLoop(qs, rows, 1, f.at, EmptyMap)
         IN  [ret |-> Map([t \in {x \in DOMAIN stats : stats[x].total > 0} |->
                             GoPercent(0, stats[t].total)]),
              err |-> NoErr, queries |-> NaiveQueries(rows), rows |-> {}]

Naive(qs, att, u, f) ==
    IF 1 \in f.at THEN Failure(f, <<"Find">>)
    ELSE LET rows  == Find(att, u)
             stats == NaiveLoop(qs, rows, 1, f.at, EmptyMap)
         IN  [ret |-> Map([t \in {x \in DOMAIN stats : stats[x].total > 0} |->
                             GoPercent(stats[t].correct, stats[t].total)]),
              err |-> NoErr, queries |-> NaiveQueries(rows), rows |-> {}]

\* Mutant: one lookup per attempt after the grouped query.
GroupedQueries_NPlusOne(att, u) ==
    <<"Scan">> \o [i \in 1..Len(Find(att, u)) |-> "First"]

\* The queries a grouped-join variant issues: the one Scan.
GroupedQueries(att, u) == <<"Scan">>

\* Mutant: the guard written Total > 1.
Grok4_GuardOff(qs, att, u, f) ==
    IF 1 \in f.at THEN Failure(f, GroupedQueries(att, u))
    ELSE LET results == GroupByTopic(qs, att, u)
         IN  [ret |-> Map([t \in {r.Topic : r \in {x \in results : x.Total > 1}} |->
                             LET res == CHOOSE r \in results : r.Topic = t
                             IN  GoPercent(res.Correct, res.Total)]),
              err |-> NoErr, queries |-> GroupedQueries(att, u), rows |-> results]

Grok4(qs, att, u, f) ==
    IF 1 \in f.at THEN Failure(f, GroupedQueries(att, u))
    ELSE LET results == GroupByTopic(qs, att, u)
         IN  [ret |-> Map([t \in {r.Topic : r \in {x \in results : x.Total > 0}} |->
                             LET res == CHOOSE r \in results : r.Topic = t
                             IN  GoPercent(res.Correct, res.Total)]),
              err |-> NoErr, queries |-> GroupedQueries(att, u), rows |-> results]

Qwen3(qs, att, u, f) ==
    IF 1 \in f.at THEN Failure(f, GroupedQueries(att, u))
    ELSE LET results == GroupByTopic(qs, att, u)
         IN  [ret |-> Map([t \in {r.Topic : r \in results} |->
                             LET r == CHOOSE x \in results : x.Topic = t
                             IN  GoPercent(r.Correct, r.Total)]),
              err |-> NoErr, queries |-> GroupedQueries(att, u), rows |-> results]

K2(qs, att, u, f) ==
    IF 1 \in f.at THEN Failure(f, GroupedQueries(att, u))
    ELSE LET results == GroupByTopicAccuracy(qs, att, u)
         IN  [ret |-> Map([t \in {r.Topic : r \in results} |->
                             (CHOOSE r \in results : r.Topic = t).Accuracy]),
              err |-> NoErr, queries |-> GroupedQueries(att, u), rows |-> results]

Variants == {"naive", "grok4", "Qwen3", "k2"}
Grouped == {"grok4", "Qwen3", "k2"}

Run(v, qs, att, u, f) ==
    CASE v = "naive" -> Naive(qs, att, u, f)
      [] v = "grok4" -> Grok4(qs, att, u, f)
      [] v = "Qwen3" -> Qwen3(qs, att, u, f)
      [] v = "k2"    -> K2(qs, att, u, f)

-----------------------------------------------------------------------------
(* The state machine *)

\* The faults a call that can issue up to n queries may meet: none, or at
\* most MaxFaults failing queries; nothing is issued after a failing first
\* query.
Faults(n) ==
    {NoFault} \cup
    {[at |-> A, err |-> e] :
        A \in {X \in SUBSET (1..n) : /\ X # {}
                                      /\ Cardinality(X) <= MaxFaults
                                      /\ (1 \in X => X = {1})},
        e \in DbErrors}

NoCall ==
    [variant |-> "none", user |-> "none", fault |-> NoFault,
     ret |-> NilMap, err |-> NoErr, queries |-> <<>>, rows |-> {}]

Returned(v, u, f, out) ==
    [variant |-> v, user |-> u, fault |-> f,
     ret |-> out.ret, err |-> out.err, queries |-> out.queries, rows |-> out.rows]

Init ==
    /\ questions = <<>>
    /\ attempts = EmptyBag
    /\ call = NoCall

\* db.Create(&questions), row by row; the primary key is unique.
CreateQuestion(id, topic) ==
    /\ call = NoCall
    /\ id \notin DOMAIN questions
    /\ questions' = questions @@ (id :> topic)
    /\ UNCHANGED <<attempts, call>>

\* db.Create(&attempts), row by row, while the table holds fewer than limit
\* rows.  The reference is not checked against the questions table.
CreateAttemptUpTo(limit, u, id, ok) ==
    /\ call = NoCall
    /\ BagCardinality(attempts) < limit
    /\ attempts' = attempts (+) SetToBag({[UserID |-> u, QuestionID |-> id, IsCorrect |-> ok]})
    /\ UNCHANGED <<questions, call>>

CreateAttempt(u, id, ok) == CreateAttemptUpTo(MaxAttempts, u, id, ok)

\* Mutant: the call deletes the rows it has read.
CallNaive_Deletes(u) ==
    /\ call = NoCall
    /\ \E f \in Faults(1 + Len(Find(attempts, u))) :
          call' = Returned("naive", u, f, Naive(questions, attempts, u, f))
    /\ attempts' = attempts (-) UserBag(attempts, u)
    /\ UNCHANGED questions

CallNaive(u) ==
    /\ call = NoCall
    /\ \E f \in Faults(1 + Len(Find(attempts, u))) :
          call' = Returned("naive", u, f, Naive(questions, attempts, u, f))
    /\ UNCHANGED <<questions, attempts>>

CallGrok4(u) ==
    /\ call = NoCall
    /\ \E f \in Faults(1) :
          call' = Returned("grok4", u, f, Grok4(questions, attempts, u, f))
    /\ UNCHANGED <<questions, attempts>>

CallQwen3(u) ==
    /\ call = NoCall
    /\ \E f \in Faults(1) :
          call' = Returned("Qwen3", u, f, Qwen3(questions, attempts, u, f))
    /\ UNCHANGED <<questions, attempts>>

CallK2(u) ==
    /\ call = NoCall
    /\ \E f \in Faults(1) :
          call' = Returned("k2", u, f, K2(questions, attempts, u, f))
    /\ UNCHANGED <<questions, attempts>>

\* fmt.Printf("Accuracies by Topic: ...", accuracies): the caller is done with
\* what the call returned.
Printf ==
    /\ call # NoCall
    /\ call' = NoCall
    /\ UNCHANGED <<questions, attempts>>

Next ==
    \/ \E id \in QuestionIDs, topic \in Topics : CreateQuestion(id, topic)
    \/ \E u \in Users, id \in QuestionIDs, ok \in BOOLEAN : CreateAttempt(u, id, ok)
    \/ \E u \in Users : CallNaive(u)
    \/ \E u \in Users : CallGrok4(u)
    \/ \E u \in Users : CallQwen3(u)
    \/ \E u \in Users : CallK2(u)
    \/ Printf

Spec == Init /\ [][Next]_vars

\* main of k2.go: the store as seeded, then calls; further attempts (of any
\* user) may be recorded between calls.
SeedQuestions == (1 :> "Algebra") @@ (2 :> "Calculus") @@ (3 :> "Algebra")

SeedAttempts(u) ==
    SetToBag({[UserID |-> u, QuestionID |-> 1, IsCorrect |-> FALSE],
              [UserID |-> u, QuestionID |-> 2, IsCorrect |-> TRUE],
              [UserID |-> u, QuestionID |-> 3, IsCorrect |-> TRUE]})
    (+) SetToBag({[UserID |-> u, QuestionID |-> 1, IsCorrect |-> TRUE]})

SeedInit ==
    /\ questions = SeedQuestions
    /\ attempts = SeedAttempts("u1")
    /\ call = NoCall

SeedCreateAttempt(u, id, ok) ==
    CreateAttemptUpTo(BagCardinality(SeedAttempts("u1")) + MaxExtra, u, id, ok)

SeedNext ==
    \/ \E u \in Users, id \in QuestionIDs, ok \in BOOLEAN : SeedCreateAttempt(u, id, ok)
    \/ \E u \in Users : CallNaive(u)
    \/ \E u \in Users : CallGrok4(u)
    \/ \E u \in Users : CallQwen3(u)
    \/ \E u \in Users : CallK2(u)
    \/ Printf

SeedSpec == SeedInit /\ [][SeedNext]_vars

-----------------------------------------------------------------------------
(* What the properties speak of, counted from the tables directly *)

Called == call.variant \in Variants

\* The call has returned and none of its queries failed.
Succeeded == Called /\ call.fault.at = {}

\* Every attempt's question reference resolves to an existing question.
RefIntegrity == \A r \in BagToSet(attempts) : r.QuestionID \in DOMAIN questions

\* The attempts of user u on existing questions of topic t.
RowsOn(u, t) ==
    {r \in BagToSet(attempts) : /\ r.UserID = u
                                /\ r.QuestionID \in DOMAIN questions
                                /\ questions[r.QuestionID] = t}

AttemptsOn(u, t) == SumCopies(attempts, RowsOn(u, t))
CorrectOn(u, t) == SumCopies(attempts, {r \in RowsOn(u, t) : r.IsCorrect})

AttemptedTopics(u) == {t \in Topics : RowsOn(u, t) # {}}

ExactPercent(u, t) == Ratio(100 * CorrectOn(u, t), AttemptsOn(u, t))

\* v is c/n x 100 rounded to the nearest hundredth, halves upward.
RoundedToHundredth(v, c, n) ==
    /\ v.den > 0
    /\ 100 % v.den = 0
    /\ LET h == v.num * (100 \div v.den)
       IN  /\ 2 * (h * n - 10000 * c) <= n
           /\ 2 * (10000 * c - h * n) < n

Seeded(u) ==
    /\ questions = SeedQuestions
    /\ UserBag(attempts, u) = SeedAttempts(u)

-----------------------------------------------------------------------------
(* Properties *)

\* C1: under referential integrity, the key set of the map a successful call
\* returns is exactly the set of topics of the questions the user has
\* attempted: one entry per attempted topic, none for any other topic.
C1_KeySet ==
    (Succeeded /\ RefIntegrity) =>
        /\ ~call.ret.isNil
        /\ DOMAIN call.ret.m = AttemptedTopics(call.user)

\* Two attempted questions share a topic, and another topic is not attempted.
C1_Witness ==
    /\ Succeeded /\ RefIntegrity
    /\ call.variant \in {"grok4", "Qwen3"}
    /\ \E r1, r2 \in UserRows(attempts, call.user) :
          /\ r1.QuestionID # r2.QuestionID
          /\ questions[r1.QuestionID] = questions[r2.QuestionID]
    /\ \E id \in DOMAIN questions : questions[id] \notin DOMAIN call.ret.m

\* C2 as stated: in every variant the value reported for a topic is exactly
\* correct / total x 100 of the user's attempts on that topic.
C2_Exact ==
    (Succeeded /\ RefIntegrity) =>
        \A t \in DOMAIN call.ret.m : call.ret.m[t] = ExactPercent(call.user, t)

\* C2 amended: the naive, grok4 and Qwen3 variants report exactly
\* correct / total x 100; the k2 variant reports that value rounded to the
\* nearest hundredth.
C2_ExactOrRounded ==
    (Succeeded /\ RefIntegrity) =>
        \A t \in DOMAIN call.ret.m :
            IF call.variant = "k2"
            THEN RoundedToHundredth(call.ret.m[t], CorrectOn(call.user, t),
                                    AttemptsOn(call.user, t))
            ELSE call.ret.m[t] = ExactPercent(call.user, t)

\* A ratio in thirds, reported unrounded.
C2_Witness ==
    /\ Succeeded /\ RefIntegrity
    /\ call.variant \in {"naive", "grok4", "Qwen3"}
    /\ \E t \in DOMAIN call.ret.m :
          /\ call.ret.m[t].den = 3
          /\ call.ret.m[t] = ExactPercent(call.user, t)

\* C3 as stated: for the seeded scenario every variant returns
\* {Algebra: 66.67, Calculus: 100.0}.
C3_SeededRounded ==
    (Succeeded /\ Seeded(call.user)) =>
        call.ret = Map(("Algebra" :> Ratio(6667, 100)) @@ ("Calculus" :> Ratio(100, 1)))

\* C3 amended: for the seeded scenario the k2 variant returns
\* {Algebra: 66.67, Calculus: 100.0}; the naive, grok4 and Qwen3 variants
\* return {Algebra: 200/3, Calculus: 100}.
C3_SeededResult ==
    (Succeeded /\ Seeded(call.user)) =>
        call.ret = Map(("Algebra" :> IF call.variant = "k2" THEN Ratio(6667, 100)
                                     ELSE Ratio(200, 3))
                       @@ ("Calculus" :> Ratio(100, 1)))

C3_Witness ==
    /\ Succeeded /\ Seeded(call.user)
    /\ call.variant = "k2"
    /\ call.ret.m["Algebra"] = Ratio(6667, 100)
    /\ \E r \in BagToSet(attempts) : r.UserID # call.user

\* C4: a call of a grouped-join variant issues exactly one query, whether it
\* fails or not and however many attempts and topics the user has.
C4_OneQuery ==
    (Called /\ call.variant \in Grouped) => Len(call.queries) = 1

\* Several attempts over two topics.
C4_Witness ==
    /\ Succeeded /\ call.variant \in Grouped
    /\ Cardinality(DOMAIN call.ret.m) = 2
    /\ Len(Find(attempts, call.user)) >= 2
    /\ Len(call.queries) = 1

\* C5: when a query issued by the call fails, the call returns that error
\* and a nil map.
C5_ErrorPropagated ==
    (Called /\ call.fault.at # {}) =>
        /\ call.err = call.fault.err
        /\ call.ret.isNil

\* C6: the result of a call for a user is the result the same call gives on
\* the store holding the same questions and that user's attempts alone, so
\* that no attempt of another user, added, removed or flipped, changes it.
C6_OtherUsersIgnored ==
    Called =>
        LET own == Run(call.variant, questions, UserBag(attempts, call.user),
                       call.user, call.fault)
        IN  /\ call.ret = own.ret
            /\ call.err = own.err

\* Another user has attempted a question the user has attempted.
C6_Witness ==
    /\ Succeeded
    /\ call.ret.m # EmptyMap
    /\ \E r1, r2 \in BagToSet(attempts) :
          /\ r1.UserID = call.user
          /\ r2.UserID # call.user
          /\ r1.QuestionID = r2.QuestionID
          /\ r1.QuestionID \in DOMAIN questions
          /\ r1.IsCorrect # r2.IsCorrect

\* C7: for a user with no attempts a call none of whose queries fails
\* returns an empty, non-nil map and a nil error.
C7_EmptyResult ==
    (Succeeded /\ UserRows(attempts, call.user) = {}) =>
        /\ call.ret = Map(EmptyMap)
        /\ call.err = NoErr

\* Questions exist and another user has attempts.
C7_Witness ==
    /\ Succeeded
    /\ UserRows(attempts, call.user) = {}
    /\ attempts # EmptyBag
    /\ questions # <<>>
    /\ call.ret = Map(EmptyMap)

\* C8: a step that returns from a call leaves both tables as they were.
C8_ReadOnly ==
    [][call' # NoCall => (questions' = questions /\ attempts' = attempts)]_vars

\* A call has returned over a store holding attempts of the user.
C8_Witness ==
    /\ Called
    /\ call.variant = "naive"
    /\ UserRows(attempts, call.user) # {}
    /\ questions # <<>>

\* C9: every row of the grouped join has total >= 1 and 0 <= correct <=
\* total, and every percentage a grouped-join variant reports is a number
\* from 0 to 100.
C9_RowsAndRange ==
    (Called /\ call.variant \in Grouped /\ call.err = NoErr) =>
        /\ \A r \in call.rows :
              r.Total >= 1 /\ 0 <= r.Correct /\ r.Correct <= r.Total
        /\ \A t \in DOMAIN call.ret.m :
              LET v == call.ret.m[t]
              IN  v.den > 0 /\ 0 <= v.num /\ v.num <= 100 * v.den

\* Rows at both ends of the range: nothing correct, and everything correct.
C9_Witness ==
    /\ Succeeded /\ call.variant \in {"Qwen3", "k2"}
    /\ \E r1, r2 \in call.rows :
          /\ r1.Correct = 0
          /\ r2.Correct = r2.Total
    /\ \E t \in DOMAIN call.ret.m : call.ret.m[t] = Ratio(0, 1)
    /\ \E t \in DOMAIN call.ret.m : call.ret.m[t] = Ratio(100, 1)

\* C10 as stated: on every store, with no failing query, the naive variant
\* returns the map the grok4 and Qwen3 variants return.
C10_SameOnEveryStore ==
    (Succeeded /\ call.variant = "naive") =>
        /\ call.ret = Grok4(questions, attempts, call.user, NoFault).ret
        /\ call.ret = Qwen3(questions, attempts, call.user, NoFault).ret

\* C10 amended: under referential integrity, with no failing query, the
\* naive, grok4 and Qwen3 variants return the same map.
C10_SameUnderIntegrity ==
    (Succeeded /\ RefIntegrity /\ call.variant \in {"naive", "grok4", "Qwen3"}) =>
        /\ call.ret = Naive(questions, attempts, call.user, NoFault).ret
        /\ call.ret = Grok4(questions, attempts, call.user, NoFault).ret
        /\ call.ret = Qwen3(questions, attempts, call.user, NoFault).ret

C10_Witness ==
    /\ Succeeded /\ RefIntegrity
    /\ call.variant = "naive"
    /\ Cardinality(DOMAIN call.ret.m) = 2
    /\ \E t \in DOMAIN call.ret.m : call.ret.m[t] = Ratio(50, 1)

====
